---- MODULE Spec2Model ----
(***************************************************************************)
(* Model of src/app.py: the Streamlit pothole-detection page.              *)
(*                                                                         *)
(* State: the st.session_state entries the script initialises (lines       *)
(* 18-41), a wall clock, the position of the one frame callback the        *)
(* stream worker runs (idle, or blocked in requests.post at line 189),     *)
(* the last report written by "Generate PDF" and the last images shown by  *)
(* the display loop.  latitude/longitude are never assigned after line     *)
(* 24-27 and stay None; they are not modelled.                             *)
(*                                                                         *)
(* Time is in milliseconds.  Confidences are in hundredths (0.3 = 30).     *)
(* A frame is [id, kind, boxes]: id is the capture order, boxes the        *)
(* rectangles and labels drawn onto its pixel buffer.                      *)
(*                                                                         *)
(* The stream worker of streamlit_webrtc is taken to run one callback at   *)
(* a time; that library is not part of the repository.                     *)
(***************************************************************************)
EXTENDS Integers, Sequences, FiniteSets, TLC

\* ---------------------------------------------------------------- bounds
MaxFrames == 3          \* frames captured in one behaviour
StartTime == 1000       \* time.time() when the page is first run

\* ------------------------------------------------------ program constants
RateLimitMs == 500      \* line 179: 0.5 seconds
TimeoutMs   == 10000    \* line 189: timeout=10
Threshold   == 30       \* line 210: det["confidence"] > 0.3

\* ----------------------------------------------------------- input sets
Gaps      == {100, 500}          \* time between two callback invocations
Latencies == {100}               \* time a request takes to answer or fail fast
Confs     == {20, 30, 90}        \* below, at and above the threshold
FrameKinds == {"valid", "empty", "null"}
Outcomes  == {"200", "non200", "malformed", "timeout", "connection_error"}

Det(c) == [class_name |-> "pothole", confidence |-> c]

\* the "detections" list of a 200 response (missing key = empty list)
DetectionLists ==
    {<<>>} \cup {<<Det(c)>> : c \in Confs}
           \cup {<<Det(90), Det(20)>>}

NoFrame == [id |-> 0, kind |-> "none", boxes |-> <<>>]
Idle    == [busy |-> FALSE, frame |-> NoFrame, current_time |-> 0, entry_count |-> 0]
NoResult == [id |-> 0, kind |-> "none", outcome |-> "none", raised |-> FALSE,
             frame |-> NoFrame, entry_count |-> 0]

VARIABLES
    streaming,          \* line 18
    frame_count,        \* line 20
    detections,         \* line 22
    processed_frames,   \* line 28
    webrtc_error,       \* line 30
    api_status,         \* line 32
    frames_sent,        \* line 34
    frames_responded,   \* line 36
    last_frame_time,    \* line 38
    latest_frame,       \* line 40
    now,                \* time.time()
    inflight,           \* the callback blocked in requests.post, or Idle
    result,             \* what the last finished callback did (its frame, outcome)
    transmitted,        \* current_time of each frame posted, in posting order
    own_qualifying,     \* callbacks whose own response held a qualifying detection
    report,             \* what the last "Generate PDF" click produced
    displayed           \* what the display loop last put on the page

vars == <<streaming, frame_count, detections, processed_frames, webrtc_error,
          api_status, frames_sent, frames_responded, last_frame_time,
          latest_frame, now, inflight, result, transmitted, own_qualifying,
          report, displayed>>

session == <<frame_count, detections, processed_frames, frames_sent,
             frames_responded, last_frame_time, latest_frame>>

\* ------------------------------------------------------------- helpers

IsPrefix(s, t) == Len(s) <= Len(t) /\ SubSeq(t, 1, Len(s)) = s

\* line 163: frame is None or frame.size == 0
InvalidFrame(kind) == kind \in {"null", "empty"}

\* line 179: current_time - last_frame_time < 0.5
RateLimited(current_time, last) == current_time - last < RateLimitMs

\* a version that forgets the increment of line 184
SentNotCounted(sent) == sent

\* line 184
SentAfterPost(sent) == sent + 1

\* line 193
RespondedAfter200(responded) == responded + 1

\* a version that compares with >= instead of >
QualifiesAtThreshold(det) == det.confidence >= Threshold

\* line 210
Qualifies(det) == det.confidence > Threshold

\* lines 209-216: the rectangles and labels drawn for a detection list
Drawn(dets) == SelectSeq(dets, Qualifies)

\* lines 208-211: potholes_detected
PotholesDetected(dets) == \E i \in 1..Len(dets) : Qualifies(dets[i])

\* lines 214-216: cv2.rectangle / cv2.putText draw onto the frame in place
Annotate(frame, dets) == [frame EXCEPT !.boxes = frame.boxes \o Drawn(dets)]

\* a version that inserts the record at the head of the list
PrependRecord(log, frame, dets) ==
    <<[frame |-> frame, detections |-> dets]>> \o log

\* line 219: processed_frames.append((frame.copy(), detections.copy()))
AppendRecord(log, frame, dets) ==
    Append(log, [frame |-> frame, detections |-> dets])

\* lines 189-204: requests.post returns a response (no exception) for these
PostReturns(outcome) == outcome \in {"200", "non200", "malformed"}

\* a version whose except clause falls through to the drawing loop
ReachesDrawingAlways(outcome) == outcome \in {"200", "non200", "timeout", "connection_error"}

\* lines 192-216: the drawing loop is reached unless post or json() raised
ReachesDrawing(outcome) == outcome \in {"200", "non200"}

\* lines 140-143: one line and one image per record, oldest first
ReportOf(log) ==
    [i \in 1..Len(log) |->
        [index |-> i, image |-> log[i].frame, count |-> Len(log[i].detections)]]

\* ---------------------------------------------------------------- Init
Init ==
    /\ streaming = FALSE
    /\ frame_count = 0
    /\ detections = <<>>
    /\ processed_frames = <<>>
    /\ webrtc_error = FALSE
    /\ api_status = "None"
    /\ frames_sent = 0
    /\ frames_responded = 0
    /\ last_frame_time = 0
    /\ latest_frame = NoFrame
    /\ now = StartTime
    /\ inflight = Idle
    /\ result = NoResult
    /\ transmitted = <<>>
    /\ own_qualifying = 0
    /\ report = [status |-> "none", lines |-> <<>>]
    /\ displayed = [processed |-> 0, count |-> 0]

\* ------------------------------------------------------------- actions

\* lines 125-127
StartVideoStream ==
    /\ streaming' = TRUE
    /\ webrtc_error' = FALSE
    /\ UNCHANGED <<session, api_status, now, inflight, result, transmitted,
                   own_qualifying, report, displayed>>

\* lines 129-130
StopVideoStream ==
    /\ streaming' = FALSE
    /\ UNCHANGED <<session, webrtc_error, api_status, now, inflight, result,
                   transmitted, own_qualifying, report, displayed>>

\* lines 83-107
CheckApiConnection(encoded, outcome) ==
    /\ api_status' = IF encoded /\ outcome = "200" THEN "connected" ELSE "failed"
    /\ UNCHANGED <<session, streaming, webrtc_error, now, inflight, result,
                   transmitted, own_qualifying, report, displayed>>

\* lines 132-155
GeneratePDF ==
    /\ report' = IF processed_frames # <<>>
                 THEN [status |-> "pdf", lines |-> ReportOf(processed_frames)]
                 ELSE [status |-> "no_data", lines |-> <<>>]
    /\ UNCHANGED <<session, streaming, webrtc_error, api_status, now, inflight,
                   result, transmitted, own_qualifying, displayed>>

\* lines 277-295: one iteration of the display loop.  The live image is
\* latest_frame itself; what the loop adds to the page is the caption of the
\* most recent record.
DisplayRefresh ==
    /\ streaming /\ ~webrtc_error
    /\ displayed' =
         [processed |-> Len(processed_frames),
          count |-> IF processed_frames # <<>>
                    THEN Len(processed_frames[Len(processed_frames)].detections)
                    ELSE displayed.count]
    /\ UNCHANGED <<session, streaming, webrtc_error, api_status, now, inflight,
                   result, transmitted, own_qualifying, report>>

\* lines 233-243 with process_frame lines 158-189: the callback from the
\* arrival of a frame up to its early return or its blocking in requests.post
VideoFrameCallback(kind, gap, encoded) ==
    LET frame == [id |-> frame_count + 1, kind |-> kind, boxes |-> <<>>]
        current_time == now + gap
        done(outcome, raised) ==
            [id |-> frame.id, kind |-> kind, outcome |-> outcome,
             raised |-> raised, frame |-> frame, entry_count |-> frame_count]
    IN
    /\ streaming
    /\ ~inflight.busy
    /\ frame_count < MaxFrames
    /\ now' = current_time
    /\ frame_count' = frame_count + 1                          \* line 159
    /\ IF kind = "null"
       THEN \* line 160: frame.shape raises AttributeError; lines 239-243
            /\ webrtc_error' = TRUE
            /\ result' = done("invalid", TRUE)
            /\ UNCHANGED <<latest_frame, frames_sent, inflight, transmitted>>
       ELSE IF InvalidFrame(kind) \/ ~encoded \/ RateLimited(current_time, last_frame_time)
       THEN \* lines 166, 173, 180: return frame; line 237.  The source shows
            \* no failure of line 238 on the returned frame, an empty one
            \* included, so the callback ends without an exception.
            /\ latest_frame' = frame
            /\ result' = done(IF InvalidFrame(kind) THEN "invalid"
                              ELSE IF ~encoded THEN "encode_failed"
                              ELSE "rate_limited", FALSE)
            /\ UNCHANGED <<webrtc_error, frames_sent, inflight, transmitted>>
       ELSE \* lines 184-189
            /\ frames_sent' = SentAfterPost(frames_sent)
            /\ inflight' = [busy |-> TRUE, frame |-> frame,
                            current_time |-> current_time,
                            entry_count |-> frame_count]
            /\ transmitted' = Append(transmitted, current_time)
            /\ UNCHANGED <<webrtc_error, latest_frame, result>>
    /\ UNCHANGED <<streaming, detections, processed_frames, api_status,
                   frames_responded, last_frame_time, own_qualifying, report,
                   displayed>>

\* process_frame lines 189-230 and lines 237-238: requests.post returns or
\* raises, and the callback runs to its end
RequestReturns(outcome, dets, latency) ==
    LET frame == inflight.frame
        dets1 == IF outcome = "200" THEN dets ELSE detections   \* line 196
        out   == IF ReachesDrawing(outcome) THEN Annotate(frame, dets1) ELSE frame
        logged == ReachesDrawing(outcome) /\ PotholesDetected(dets1)
    IN
    /\ inflight.busy
    /\ outcome = "timeout" => latency = TimeoutMs
    /\ outcome # "timeout" => latency \in Latencies
    /\ outcome # "200" => dets = <<>>
    /\ now' = now + latency
    /\ last_frame_time' = IF PostReturns(outcome)
                          THEN inflight.current_time            \* line 190
                          ELSE last_frame_time
    /\ frames_responded' = IF outcome \in {"200", "malformed"}
                           THEN RespondedAfter200(frames_responded)
                           ELSE frames_responded
    /\ detections' = dets1
    /\ processed_frames' = IF logged
                           THEN AppendRecord(processed_frames, out, dets1)
                           ELSE processed_frames
    /\ own_qualifying' = IF outcome = "200" /\ PotholesDetected(dets)
                         THEN own_qualifying + 1 ELSE own_qualifying
    /\ latest_frame' = out                                      \* line 237
    /\ result' = [id |-> frame.id, kind |-> frame.kind, outcome |-> outcome,
                  raised |-> FALSE, frame |-> out,
                  entry_count |-> inflight.entry_count]
    /\ inflight' = Idle
    /\ UNCHANGED <<streaming, frame_count, webrtc_error, api_status,
                   frames_sent, transmitted, report, displayed>>

Next ==
    \/ StartVideoStream
    \/ StopVideoStream
    \/ \E e \in BOOLEAN, o \in {"200", "non200", "connection_error"} :
          CheckApiConnection(e, o)
    \/ GeneratePDF
    \/ DisplayRefresh
    \/ \E k \in FrameKinds, g \in Gaps, e \in BOOLEAN : VideoFrameCallback(k, g, e)
    \/ \E o \in Outcomes, d \in DetectionLists, l \in Latencies \cup {TimeoutMs} :
          RequestReturns(o, d, l)

Spec == Init /\ [][Next]_vars

\* ------------------------------------------------------------- claims

AboveThreshold(det) == det.confidence > Threshold
Transport == {"timeout", "connection_error"}
CallbackEnds == result' # result

\* C1: a frame answered with a status other than 200 is returned with no
\* rectangle or label drawn on it.
C1_Non200Unannotated ==
    result.outcome = "non200" => result.frame.boxes = <<>>

\* C2: the length of processed_frames equals the number of calls whose own
\* frame received at least one detection above the threshold.
C2_RetentionCount ==
    Len(processed_frames) = own_qualifying

\* C3: two consecutive frames posted to the endpoint are started at least
\* 500 ms apart.
C3_MinGapBetweenPosts ==
    \A i \in 1..(Len(transmitted) - 1) :
        transmitted[i + 1] - transmitted[i] >= RateLimitMs

\* C4: every record of processed_frames holds only detections above the
\* threshold, so the count a report prints for a record is the number of
\* qualifying detections of that record.
C4_RecordsHoldOnlyQualifying ==
    /\ \A i \in 1..Len(processed_frames) :
          \A j \in 1..Len(processed_frames[i].detections) :
              AboveThreshold(processed_frames[i].detections[j])
    /\ \A i \in 1..Len(report.lines) :
          report.lines[i].count =
              Len(SelectSeq(processed_frames[i].detections, AboveThreshold))

\* C5: a call whose request times out or fails to connect raises nothing,
\* draws nothing on its frame, leaves processed_frames as it was, and has
\* incremented frame_count by exactly one.
C5_TransportFailureAbsorbed ==
    [][(CallbackEnds /\ result'.outcome \in Transport) =>
          /\ ~result'.raised
          /\ webrtc_error' = webrtc_error
          /\ result'.frame.boxes = <<>>
          /\ latest_frame'.boxes = <<>>
          /\ processed_frames' = processed_frames
          /\ frame_count' = result'.entry_count + 1]_vars

C5_Witness ==
    /\ result.outcome \in Transport
    /\ \E i \in 1..Len(detections) : AboveThreshold(detections[i])
    /\ frame_count >= 2

\* C6: a null or empty input frame does not set webrtc_error, so the display
\* loop keeps running after it.
C6_InvalidFrameNotFatal ==
    result.outcome = "invalid" => ~webrtc_error

\* C8: processed_frames is append-only under every operation, and Generate
\* PDF lists every record oldest first and leaves the list as it was.
C8_AppendOnlyLog ==
    [][/\ IsPrefix(processed_frames, processed_frames')
       /\ report' # report =>
             /\ processed_frames' = processed_frames
             /\ Len(report'.lines) = Len(processed_frames)
             /\ \A i \in 1..Len(processed_frames) :
                   /\ report'.lines[i].index = i
                   /\ report'.lines[i].image = processed_frames[i].frame
                   /\ report'.lines[i].count = Len(processed_frames[i].detections)]_vars

C8_Witness ==
    /\ report.status = "pdf"
    /\ Len(report.lines) = 2
    /\ Len(processed_frames) = 3
    /\ processed_frames[1].frame.id < processed_frames[2].frame.id

\* C9: in a call that reaches the drawing loop, the boxes drawn are exactly
\* the detections whose confidence is strictly greater than the threshold,
\* and a record is appended exactly when there is at least one of them.
C9_StrictThreshold ==
    [][(CallbackEnds /\ result'.outcome \in {"200", "non200"}) =>
          /\ result'.frame.boxes = SelectSeq(detections', AboveThreshold)
          /\ (processed_frames' # processed_frames) <=>
                (\E i \in 1..Len(detections') : detections'[i].confidence > Threshold)]_vars

C9_Witness ==
    /\ result.outcome = "200"
    /\ detections = <<Det(Threshold)>>
    /\ result.frame.boxes = <<>>
    /\ processed_frames = <<>>

\* C10: frames_responded <= frames_sent <= frame_count always, and none of
\* the three counters ever decreases.
C10_CounterOrder ==
    [][/\ frames_responded <= frames_sent /\ frames_sent <= frame_count
       /\ frames_responded' <= frames_sent' /\ frames_sent' <= frame_count'
       /\ frame_count' >= frame_count
       /\ frames_sent' >= frames_sent
       /\ frames_responded' >= frames_responded]_vars

C10_Witness ==
    /\ frame_count = 3
    /\ frames_sent = 2
    /\ frames_responded = 1

====
